---- MODULE Spec2Model ----
(***************************************************************************)
(* A model of libfreelan's routes message codec (routes_message.cpp):      *)
(* routes_message::write (the encoder), the ip_network_address_            *)
(* representation visitor (one record written / one record read),          *)
(* routes_message::version, routes_message::routes (the memoized decoder)  *)
(* and the two routes_message constructors.                                *)
(*                                                                         *)
(* Memory is modelled as bytes at 0-based offsets.  The caller's buffer is *)
(* the first buf_len bytes of mem; a store beyond buf_len lands in the     *)
(* memory that follows the buffer (undefined behaviour: the build may      *)
(* corrupt that memory and go on, or crash).  A read beyond the declared   *)
(* payload of a message is undefined behaviour too: its outcome is a       *)
(* nondeterministic choice.                                                *)
(***************************************************************************)
EXTENDS Integers, Sequences, FiniteSets

(* ------------------------------ bounds --------------------------------- *)

\* The largest number of routes in an encoded route set.
MaxRoutes == 2

\* The number of threads calling accessors on a constructed message.
NThreads == 2

\* The total number of routes() calls made after construction.
MaxCalls == 2

(* ------------------------- program constants --------------------------- *)

\* enum ip_network_address_type
INAT_IPV4 == 1
INAT_IPV4_GATEWAY == 2
INAT_IPV6 == 3
INAT_IPV6_GATEWAY == 4

\* message::HEADER_LENGTH, the size of the generic envelope header.
HEADER_LENGTH == 4

\* sizeof(uint32_t), the size of the version field.
SizeofUint32 == 4

\* boost::asio::ip::address_v4::bytes_type().size() and the v6 counterpart.
V4Bytes == 4
V6Bytes == 16

\* size_t arithmetic is modular.  The modulus of the model is 2^30 (the
\* model checker's integers are 32 bits wide); every buffer of the model is
\* far shorter, so a wrapped counter is as far out of range as with 2^64.
SizeMod == 1073741824

SizeSub(a, b) == (a - b + SizeMod) % SizeMod

\* The what() of the std::runtime_error each throw statement raises.
ErrBufLen == "buf_len"
ErrPrefixLength == "Not enough bytes for the expected prefix length"
ErrIpAddress == "Not enough bytes for the expected IP address"
ErrUnknownType == "Unknown route type in message"

None == "none"

\* An optional value (boost::optional, or a value not there yet): the empty
\* sequence, or the one-element sequence of the value.
Nothing == << >>

Some(x) == << x >>

Get(o) == o[1]

(* ------------------------------ routes --------------------------------- *)

NoGateway == << >>

\* asiotap::base_ip_route<AddressType>: a network address (address octets
\* and prefix length) and an optional gateway of the same family.
Route(f, a, p, g) == [family |-> f, address |-> a, prefix_length |-> p, gateway |-> g]

HasGateway(ir) == ir.gateway # NoGateway

Zeros(n) == [i \in 1..n |-> 0]

\* The routes the inputs are drawn from: both families, with and without a
\* gateway.  Gw6Records is an IPv6 gateway whose octets happen to read as
\* two IPv4 records (tag 1, then tag 2).
Net4A == <<10, 0, 0, 0>>
Net4B == <<192, 168, 1, 0>>
Gw4B == <<192, 168, 1, 1>>
Net6A == <<32, 1, 13, 184>> \o Zeros(12)
Net6B == <<254, 128>> \o Zeros(14)
Gw6Plain == <<254, 128>> \o Zeros(13) \o <<1>>
Gw6Records == <<1, 8, 10, 0, 0, 0, 2, 24, 192, 168, 1, 0, 192, 168, 1, 1>>

RouteUniverse ==
    { Route(4, Net4A, 8, NoGateway),
      Route(4, Net4B, 24, Gw4B),
      Route(6, Net6A, 32, NoGateway),
      Route(6, Net6B, 64, Gw6Plain),
      Route(6, Net6A, 48, Gw6Records) }

\* The version numbers the inputs are drawn from.
Versions == {1, 16909060}

Range(s) == {s[i] : i \in 1..Len(s)}

\* The iteration orders of the route sets of at most MaxRoutes routes.
RouteSeqs ==
    UNION { {s \in [1..n -> RouteUniverse] :
                \A i, j \in 1..n : i < j => s[i] # s[j]} : n \in 0..MaxRoutes }

\* The largest record: tag, prefix length, IPv6 address, IPv6 gateway.
MaxRecord == 2 + V6Bytes + V6Bytes

MaxBufLen == HEADER_LENGTH + SizeofUint32 + MaxRoutes * MaxRecord

(* ------------------------- byte-level helpers -------------------------- *)

\* htonl / ntohl on a little-endian host: the four octets are reversed.
ByteSwap32(x) ==
    (x % 256) * 16777216 + ((x \div 256) % 256) * 65536
        + ((x \div 65536) % 256) * 256 + ((x \div 16777216) % 256)

htonl(x) == ByteSwap32(x)

ntohl(x) == ByteSwap32(x)

\* fscp::buffer_tools::set<uint32_t>: the value's octets in host order.
SetUint32(x) ==
    << x % 256, (x \div 256) % 256, (x \div 65536) % 256, (x \div 16777216) % 256 >>

\* fscp::buffer_tools::get<uint32_t>: four octets read in host order.
GetUint32(b) == b[1] + b[2] * 256 + b[3] * 65536 + b[4] * 16777216

\* Memory is a map from the 0-based offsets stored to so far to the byte
\* stored there.  A store of bytes at offset off of memory m:
StoreBytes(m, off, bytes) ==
    [i \in DOMAIN m \cup (off..(off + Len(bytes) - 1)) |->
        IF i >= off /\ i < off + Len(bytes) THEN bytes[i - off + 1] ELSE m[i]]

\* The n bytes of memory m from offset off on.
LoadBytes(m, off, n) == [i \in 1..n |-> m[off + i - 1]]

(* ------------------------------ encoder -------------------------------- *)

\* A slip in the IPv6 specialisation: it answers with the IPv4 tags.
get_address_type_Ipv4Tags(family, has_gateway) ==
    IF has_gateway THEN INAT_IPV4_GATEWAY ELSE INAT_IPV4

\* get_address_type<AddressType>(has_gateway)
get_address_type(family, has_gateway) ==
    IF family = 4
    THEN (IF has_gateway THEN INAT_IPV4_GATEWAY ELSE INAT_IPV4)
    ELSE (IF has_gateway THEN INAT_IPV6_GATEWAY ELSE INAT_IPV6)

\* ip_network_address_representation(buf, m_buf_len)(ir): the visitor's
\* operator().  written: the bytes it stores at m_buf, in order (the tag,
\* the prefix length and the address are stored before the gateway check).
ip_network_address_representation(m_buf_len_, ir) ==
    LET bytes == ir.address
        first_size == 2 + Len(bytes)
        head == << get_address_type(ir.family, HasGateway(ir)),
                   ir.prefix_length % 256 >> \o bytes
    IN  IF m_buf_len_ < first_size
        THEN [throws |-> TRUE, count |-> 0, written |-> << >>]
        ELSE IF HasGateway(ir)
        THEN LET result_size == first_size + Len(ir.gateway)
             IN  IF m_buf_len_ < result_size
                 THEN [throws |-> TRUE, count |-> 0, written |-> head]
                 ELSE [throws |-> FALSE, count |-> result_size,
                       written |-> head \o ir.gateway]
        ELSE [throws |-> FALSE, count |-> first_size, written |-> head]

(* ------------------------------- state --------------------------------- *)

VARIABLES
    \* routes_message::write: its position, arguments and locals
    wpc,            \* "idle", "version", "routes", "returned", "threw", "crashed"
    buf_len,        \* the buf_len argument
    wversion,       \* the _version argument
    wroutes,        \* the routes argument, in its iteration order
    widx,           \* the index of the next route of the for loop
    mem,            \* the bytes stored at buf, by offset; the caller's
                    \* buffer is the offsets below buf_len
    pbuf,           \* pbuf, as an offset from buf
    pbuf_len,       \* pbuf_len
    required_size,  \* required_size
    wresult,        \* the size returned
    werr,           \* the what() of the exception raised, or None
    wrecs,          \* per encoded route: the route, the bytes stored, the count
    hdr,            \* the envelope header message::write stored
    \* the message on its way to a receiver
    inflight,       \* the payload of the message, or None
    sent,           \* the (version, routes) it was written from, or None
    \* one routes_message object
    mstate,         \* "none", "constructing", "alive", "failed", "crashed"
    ctor_kind,      \* which constructor built it
    payload,        \* payload(): length() bytes
    m_routes_cache, \* m_routes_cache: None or a route set
    merr,           \* the what() of the exception the constructor raised
    \* routes() calls: thread 0 is the constructor's call
    rpc,            \* per thread: "idle", "check", "loop", "store", "ret", "threw"
    m_buf,          \* per thread: the deserializer's m_buf, an offset in payload
    m_buf_len,      \* per thread: the deserializer's m_buf_len
    result,         \* per thread: the local result
    dlog,           \* per thread: per record read, <<tag, bytes consumed>>
    rret,           \* per thread: what the last call returned
    calls,          \* routes() calls made after construction
    vret,           \* what version() returned, or None
    ub,             \* a read outside the declared payload has happened
    parseCount,     \* how many times the record-parsing loop was entered
    storeCount      \* how many times m_routes_cache was assigned

encvars == << wpc, buf_len, wversion, wroutes, widx, mem, pbuf, pbuf_len,
              required_size, wresult, werr, wrecs, hdr >>

wirevars == << inflight, sent >>

msgvars == << mstate, ctor_kind, payload, m_routes_cache, merr >>

thrvars == << rpc, m_buf, m_buf_len, result, dlog, rret, calls, vret, ub,
              parseCount, storeCount >>

vars == << encvars, wirevars, msgvars, thrvars >>

CtorThread == 0

Threads == 1..NThreads

AllThreads == {CtorThread} \cup Threads

\* No envelope header stored yet.
NoHeader == [type |-> None, length |-> 0]

EncoderIdle ==
    /\ wpc = "idle"
    /\ buf_len = 0
    /\ wversion = 0
    /\ wroutes = << >>
    /\ widx = 1
    /\ mem = << >>
    /\ pbuf = 0
    /\ pbuf_len = 0
    /\ required_size = 0
    /\ wresult = 0
    /\ werr = None
    /\ wrecs = << >>
    /\ hdr = NoHeader

\* What a routes() call gave its caller: nothing yet, the route set
\* returned, or the exception raised.
NoReturn == [kind |-> "none", routes |-> {}, err |-> None]

Returned(rs) == [kind |-> "ok", routes |-> rs, err |-> None]

Raised(e) == [kind |-> "err", routes |-> {}, err |-> e]

Init ==
    /\ EncoderIdle
    /\ inflight = Nothing
    /\ sent = Nothing
    /\ mstate = "none"
    /\ ctor_kind = None
    /\ payload = << >>
    /\ m_routes_cache = Nothing
    /\ merr = None
    /\ rpc = [t \in AllThreads |-> "idle"]
    /\ m_buf = [t \in AllThreads |-> 0]
    /\ m_buf_len = [t \in AllThreads |-> 0]
    /\ result = [t \in AllThreads |-> {}]
    /\ dlog = [t \in AllThreads |-> << >>]
    /\ rret = [t \in AllThreads |-> NoReturn]
    /\ calls = 0
    /\ vret = Nothing
    /\ ub = FALSE
    /\ parseCount = 0
    /\ storeCount = 0

(* ----------------------- routes_message::write ------------------------- *)

\* The call and the guard of lines 236-243.
WriteBegin(len, v, rs) ==
    /\ wpc = "idle"
    /\ inflight = Nothing
    /\ mstate = "none"
    /\ buf_len' = len
    /\ wversion' = v
    /\ wroutes' = rs
    /\ IF len < HEADER_LENGTH
       THEN /\ wpc' = "threw"
            /\ werr' = ErrBufLen
            /\ UNCHANGED << pbuf, pbuf_len >>
       ELSE /\ wpc' = "version"
            /\ pbuf' = HEADER_LENGTH
            /\ pbuf_len' = len - HEADER_LENGTH
            /\ UNCHANGED werr
    /\ required_size' = 0
    /\ UNCHANGED << widx, mem, wresult, wrecs, hdr >>
    /\ UNCHANGED << wirevars, msgvars, thrvars >>

\* Lines 245-249: the version is stored at pbuf with no check of pbuf_len.
WriteVersion ==
    /\ wpc = "version"
    /\ mem' = StoreBytes(mem, pbuf, SetUint32(htonl(wversion)))
    /\ required_size' = required_size + SizeofUint32
    /\ pbuf' = pbuf + SizeofUint32
    /\ pbuf_len' = SizeSub(pbuf_len, SizeofUint32)
    /\ wpc' = "routes"
    /\ UNCHANGED << buf_len, wversion, wroutes, widx, wresult, werr, wrecs, hdr >>
    /\ UNCHANGED << wirevars, msgvars, thrvars >>

\* One iteration of the for loop of lines 251-258.
WriteRoute ==
    /\ wpc = "routes"
    /\ widx <= Len(wroutes)
    /\ LET route == wroutes[widx]
           rep == ip_network_address_representation(pbuf_len, route)
       IN  /\ mem' = StoreBytes(mem, pbuf, rep.written)
           /\ IF rep.throws
              THEN /\ wpc' = "threw"
                   /\ werr' = ErrBufLen
                   /\ UNCHANGED << required_size, pbuf, pbuf_len, widx, wrecs >>
              ELSE /\ required_size' = required_size + rep.count
                   /\ pbuf' = pbuf + rep.count
                   /\ pbuf_len' = SizeSub(pbuf_len, rep.count)
                   /\ widx' = widx + 1
                   /\ wrecs' = Append(wrecs, [route |-> route, at |-> pbuf,
                                              written |-> rep.written,
                                              count |-> rep.count])
                   /\ UNCHANGED << wpc, werr >>
    /\ UNCHANGED << buf_len, wversion, wroutes, wresult, hdr >>
    /\ UNCHANGED << wirevars, msgvars, thrvars >>

\* message::write(buf, buf_len, MT_ROUTES, length): stores the envelope
\* header in the first HEADER_LENGTH bytes and returns the message size.
message_write(length) ==
    [size |-> HEADER_LENGTH + length,
     header |-> [type |-> "MT_ROUTES", length |-> length]]

\* Line 260, once the loop is over.
WriteFinish ==
    /\ wpc = "routes"
    /\ widx > Len(wroutes)
    /\ LET w == message_write(required_size)
       IN  /\ wpc' = "returned"
           /\ wresult' = w.size
           /\ hdr' = w.header
    /\ UNCHANGED << buf_len, wversion, wroutes, widx, mem, pbuf, pbuf_len,
                    required_size, werr, wrecs >>
    /\ UNCHANGED << wirevars, msgvars, thrvars >>

\* A byte was stored outside the caller's buffer.
StoredOutside == \E i \in DOMAIN mem : i >= buf_len

\* A store beyond the buffer is undefined behaviour: besides going on with
\* the memory after the buffer overwritten, the call may be killed.
WriteCrash ==
    /\ wpc = "routes"
    /\ StoredOutside
    /\ wpc' = "crashed"
    /\ UNCHANGED << buf_len, wversion, wroutes, widx, mem, pbuf, pbuf_len,
                    required_size, wresult, werr, wrecs, hdr >>
    /\ UNCHANGED << wirevars, msgvars, thrvars >>

(* --------------------------- the wire ---------------------------------- *)

\* The message a successful write left in the caller's buffer is handed to
\* a receiver: its payload is the hdr.length bytes after the header.  The
\* sender's call is over; what it was written from is remembered in sent.
Deliver ==
    /\ wpc = "returned"
    /\ ~StoredOutside
    /\ inflight = Nothing
    /\ mstate = "none"
    /\ inflight' = Some(LoadBytes(mem, HEADER_LENGTH, hdr.length))
    /\ sent' = Some([version |-> wversion, routes |-> Range(wroutes)])
    /\ wpc' = "idle"
    /\ buf_len' = 0
    /\ wversion' = 0
    /\ wroutes' = << >>
    /\ widx' = 1
    /\ mem' = << >>
    /\ pbuf' = 0
    /\ pbuf_len' = 0
    /\ required_size' = 0
    /\ wresult' = 0
    /\ werr' = None
    /\ wrecs' = << >>
    /\ hdr' = NoHeader
    /\ UNCHANGED << msgvars, thrvars >>

\* The bytes of the records of rs, as the visitor stores them given room.
RecordBytes(rs) ==
    LET F[i \in 0..Len(rs)] ==
            IF i = 0 THEN << >>
            ELSE F[i - 1] \o ip_network_address_representation(MaxRecord, rs[i]).written
    IN  F[Len(rs)]

\* Bytes that are none of the four tags.
UnknownTags == {0, 5}

\* A payload received from a peer that need not be well formed: a version
\* and records, possibly followed by an unknown tag, cut at any length.
Inject(v, rs, tail, n) ==
    /\ wpc = "idle"
    /\ inflight = Nothing
    /\ mstate = "none"
    /\ LET full == SetUint32(htonl(v)) \o RecordBytes(rs) \o tail
       IN  /\ n <= Len(full)
           /\ inflight' = Some(SubSeq(full, 1, n))
    /\ sent' = Nothing
    /\ UNCHANGED << encvars, msgvars, thrvars >>

(* ------------------------------ decoder -------------------------------- *)

Thrown(e) == [kind |-> "throw", err |-> e, route |-> Nothing, buf |-> 0, len |-> 0, used |-> 0]

\* read_next_ip_route<AddressType>(has_gateway), lines 141-186, on the bytes
\* p with m_buf = buf and m_buf_len = len; width is bytes.size().
read_next_ip_route_typed(p, buf, len, family, width, has_gateway) ==
    IF len = 0
    THEN Thrown(ErrPrefixLength)
    ELSE LET prefix_length == p[buf + 1]
             buf1 == buf + 1
             len1 == len - 1
         IN  IF len1 < width
             THEN Thrown(ErrIpAddress)
             ELSE LET bytes == SubSeq(p, buf1 + 1, buf1 + width)
                      buf2 == buf1 + width
                      len2 == len1 - width
                  IN  IF has_gateway
                      THEN IF len2 < width
                           THEN Thrown(ErrIpAddress)
                           ELSE [kind |-> "route", err |-> None,
                                 route |-> Some(Route(family, bytes, prefix_length,
                                                 SubSeq(p, buf2 + 1, buf2 + width))),
                                 buf |-> buf2 + width, len |-> len2 - width,
                                 used |-> 1 + width + width]
                      ELSE [kind |-> "route", err |-> None,
                            route |-> Some(Route(family, bytes, prefix_length, NoGateway)),
                            buf |-> buf2, len |-> len2, used |-> 1 + width]

\* The has_gateway argument of the IPv6 case, line 216.
Ipv6HasGateway(type) == type = INAT_IPV4_GATEWAY

\* read_next_ip_route(ir), lines 193-225.
read_next_ip_route(p, buf, len) ==
    IF len = 0
    THEN [kind |-> "false", err |-> None, route |-> Nothing, buf |-> buf, len |-> len,
          used |-> 0]
    ELSE LET type == p[buf + 1]
             buf1 == buf + 1
             len1 == len - 1
         IN  IF type \in {INAT_IPV4, INAT_IPV4_GATEWAY}
             THEN read_next_ip_route_typed(p, buf1, len1, 4, V4Bytes,
                                           type = INAT_IPV4_GATEWAY)
             ELSE IF type \in {INAT_IPV6, INAT_IPV6_GATEWAY}
             THEN read_next_ip_route_typed(p, buf1, len1, 6, V6Bytes,
                                           Ipv6HasGateway(type))
             ELSE Thrown(ErrUnknownType)

\* A constructor that leaves the decoding to the first routes() call.
ConstructFromBuffer_Lazy ==
    /\ inflight # Nothing
    /\ mstate = "none"
    /\ mstate' = "alive"
    /\ ctor_kind' = "buffer"
    /\ payload' = Get(inflight)
    /\ UNCHANGED << m_routes_cache, merr >>
    /\ UNCHANGED thrvars
    /\ UNCHANGED << encvars, wirevars >>

\* routes_message(const void* buf, size_t buf_len): message(buf, buf_len),
\* then routes().
ConstructFromBuffer ==
    /\ inflight # Nothing
    /\ mstate = "none"
    /\ mstate' = "constructing"
    /\ ctor_kind' = "buffer"
    /\ payload' = Get(inflight)
    /\ rpc' = [rpc EXCEPT ![CtorThread] = "check"]
    /\ UNCHANGED << m_routes_cache, merr >>
    /\ UNCHANGED << m_buf, m_buf_len, result, dlog, rret, calls, vret, ub,
                    parseCount, storeCount >>
    /\ UNCHANGED << encvars, wirevars >>

\* routes_message(const message& _message): message(_message), then routes().
ConstructFromMessage ==
    /\ inflight # Nothing
    /\ mstate = "none"
    /\ mstate' = "constructing"
    /\ ctor_kind' = "message"
    /\ payload' = Get(inflight)
    /\ rpc' = [rpc EXCEPT ![CtorThread] = "check"]
    /\ UNCHANGED << m_routes_cache, merr >>
    /\ UNCHANGED << m_buf, m_buf_len, result, dlog, rret, calls, vret, ub,
                    parseCount, storeCount >>
    /\ UNCHANGED << encvars, wirevars >>

\* A thread calls routes() on the constructed object.
RoutesCall(t) ==
    /\ mstate = "alive"
    /\ rpc[t] = "idle"
    /\ calls < MaxCalls
    /\ calls' = calls + 1
    /\ rpc' = [rpc EXCEPT ![t] = "check"]
    /\ UNCHANGED << m_buf, m_buf_len, result, dlog, rret, vret, ub,
                    parseCount, storeCount >>
    /\ UNCHANGED << encvars, wirevars, msgvars >>

\* routes() without the test of the cache: every call parses.
CacheIsEmpty_Always(cache) == TRUE

\* !m_routes_cache, line 270.
CacheIsEmpty(cache) == cache = Nothing

\* Lines 270-279: the test of the cache and, when it is empty, the set-up of
\* the deserializer (length() - sizeof(uint32_t) is a size_t subtraction).
RoutesCheck(t) ==
    /\ mstate \in {"constructing", "alive"}
    /\ rpc[t] = "check"
    /\ IF CacheIsEmpty(m_routes_cache)
       THEN /\ result' = [result EXCEPT ![t] = {}]
            /\ m_buf' = [m_buf EXCEPT ![t] = SizeofUint32]
            /\ m_buf_len' = [m_buf_len EXCEPT ![t] = SizeSub(Len(payload), SizeofUint32)]
            /\ dlog' = [dlog EXCEPT ![t] = << >>]
            /\ parseCount' = parseCount + 1
            /\ rpc' = [rpc EXCEPT ![t] = "loop"]
       ELSE /\ rpc' = [rpc EXCEPT ![t] = "ret"]
            /\ UNCHANGED << result, m_buf, m_buf_len, dlog, parseCount >>
    /\ UNCHANGED << rret, calls, vret, ub, storeCount >>
    /\ UNCHANGED << encvars, wirevars, msgvars >>

\* An exception leaves routes(): out of the constructor it ends the
\* construction, out of a later call it reaches the caller.
Raise(t, e) ==
    IF t = CtorThread
    THEN /\ mstate' = "failed"
         /\ merr' = e
         /\ rpc' = [rpc EXCEPT ![t] = "threw"]
         /\ UNCHANGED rret
    ELSE /\ rpc' = [rpc EXCEPT ![t] = "threw"]
         /\ rret' = [rret EXCEPT ![t] = Raised(e)]
         /\ UNCHANGED << mstate, merr >>

\* One evaluation of the while condition of line 281 and, when a route was
\* read, the insert of line 283.  Every byte it reads is in the payload.
ReadNext(t) ==
    /\ mstate \in {"constructing", "alive"}
    /\ rpc[t] = "loop"
    /\ m_buf_len[t] = 0 \/ m_buf[t] + m_buf_len[t] <= Len(payload)
    /\ LET r == read_next_ip_route(payload, m_buf[t], m_buf_len[t])
       IN  CASE r.kind = "false" ->
                    /\ rpc' = [rpc EXCEPT ![t] = "store"]
                    /\ UNCHANGED << result, m_buf, m_buf_len, dlog, rret, mstate, merr >>
             [] r.kind = "route" ->
                    /\ result' = [result EXCEPT ![t] = @ \cup {Get(r.route)}]
                    /\ m_buf' = [m_buf EXCEPT ![t] = r.buf]
                    /\ m_buf_len' = [m_buf_len EXCEPT ![t] = r.len]
                    /\ dlog' = [dlog EXCEPT ![t] =
                                  Append(@, << payload[m_buf[t] + 1], 1 + r.used >>)]
                    /\ UNCHANGED << rpc, rret, mstate, merr >>
             [] r.kind = "throw" ->
                    /\ Raise(t, r.err)
                    /\ UNCHANGED << result, m_buf, m_buf_len, dlog >>
    /\ UNCHANGED << calls, vret, ub, parseCount, storeCount >>
    /\ UNCHANGED << ctor_kind, payload, m_routes_cache >>
    /\ UNCHANGED << encvars, wirevars >>

\* The same step when m_buf_len has wrapped: *m_buf is a byte outside the
\* declared payload.  The behaviour is undefined: the process may be killed,
\* the bytes found there may end the loop with an exception, or they may be
\* read as records until the loop ends normally.
ReadOutOfBounds(t) ==
    /\ mstate \in {"constructing", "alive"}
    /\ rpc[t] = "loop"
    /\ m_buf_len[t] # 0
    /\ m_buf[t] + m_buf_len[t] > Len(payload)
    /\ ub' = TRUE
    /\ \/ /\ mstate' = "crashed"
          /\ UNCHANGED << rpc, rret, merr, result >>
       \/ /\ \E e \in {ErrUnknownType, ErrPrefixLength, ErrIpAddress} : Raise(t, e)
          /\ UNCHANGED result
       \/ /\ \E g \in {{}} \cup {{x} : x \in RouteUniverse} :
                 result' = [result EXCEPT ![t] = @ \cup g]
          /\ rpc' = [rpc EXCEPT ![t] = "store"]
          /\ UNCHANGED << mstate, merr, rret >>
    /\ UNCHANGED << m_buf, m_buf_len, dlog, calls, vret, parseCount, storeCount >>
    /\ UNCHANGED << ctor_kind, payload, m_routes_cache >>
    /\ UNCHANGED << encvars, wirevars >>

\* m_routes_cache = result, line 286.
RoutesStore(t) ==
    /\ mstate \in {"constructing", "alive"}
    /\ rpc[t] = "store"
    /\ m_routes_cache' = Some(result[t])
    /\ storeCount' = storeCount + 1
    /\ rpc' = [rpc EXCEPT ![t] = "ret"]
    /\ UNCHANGED << m_buf, m_buf_len, result, dlog, rret, calls, vret, ub, parseCount >>
    /\ UNCHANGED << mstate, ctor_kind, payload, merr >>
    /\ UNCHANGED << encvars, wirevars >>

\* return *m_routes_cache, line 289.  The constructor's call returning ends
\* the construction: the object exists from here on.
RoutesReturn(t) ==
    /\ mstate \in {"constructing", "alive"}
    /\ rpc[t] = "ret"
    /\ rret' = [rret EXCEPT ![t] = Returned(Get(m_routes_cache))]
    /\ rpc' = [rpc EXCEPT ![t] = "idle"]
    /\ mstate' = IF t = CtorThread THEN "alive" ELSE mstate
    /\ UNCHANGED << m_buf, m_buf_len, result, dlog, calls, vret, ub,
                    parseCount, storeCount >>
    /\ UNCHANGED << ctor_kind, payload, m_routes_cache, merr >>
    /\ UNCHANGED << encvars, wirevars >>

\* routes_message::version(), line 265, on the constructed object: four
\* bytes are read at payload() with no check of length().
Version ==
    /\ mstate = "alive"
    /\ vret = Nothing
    /\ IF Len(payload) >= SizeofUint32
       THEN /\ vret' = Some(ntohl(GetUint32(SubSeq(payload, 1, SizeofUint32))))
            /\ UNCHANGED ub
       ELSE /\ ub' = TRUE
            /\ vret' \in {Some(v) : v \in Versions \cup {0}}
    /\ UNCHANGED << rpc, m_buf, m_buf_len, result, dlog, rret, calls,
                    parseCount, storeCount >>
    /\ UNCHANGED << encvars, wirevars, msgvars >>

\* Nothing is under way: no write, no message in flight, no object.
Quiet == wpc = "idle" /\ inflight = Nothing /\ mstate = "none"

\* A caller starts a write: any capacity, version and route set.
Write ==
    /\ Quiet
    /\ \E len \in 0..MaxBufLen, v \in Versions, rs \in RouteSeqs :
           WriteBegin(len, v, rs)

\* A payload arrives from a peer.
Receive ==
    /\ Quiet
    /\ \E v \in Versions, rs \in RouteSeqs,
          tail \in {<< >>} \cup {<<b>> : b \in UnknownTags}, n \in 0..MaxBufLen :
           Inject(v, rs, tail, n)

Next ==
    \/ Write
    \/ WriteVersion
    \/ WriteRoute
    \/ WriteFinish
    \/ WriteCrash
    \/ Deliver
    \/ Receive
    \/ ConstructFromBuffer
    \/ ConstructFromMessage
    \/ \E t \in Threads : RoutesCall(t)
    \/ \E t \in AllThreads : RoutesCheck(t)
    \/ \E t \in AllThreads : ReadNext(t)
    \/ \E t \in AllThreads : ReadOutOfBounds(t)
    \/ \E t \in AllThreads : RoutesStore(t)
    \/ \E t \in AllThreads : RoutesReturn(t)
    \/ Version

Spec == Init /\ [][Next]_vars

(* ------------------- the wire grammar, as specified -------------------- *)

\* The address width a tag announces: 4 for tags 1 and 2, 16 for tags 3, 4.
TagWidth(tag) == IF tag \in {1, 2} THEN 4 ELSE 16

\* The '+gateway' tags.
TagHasGateway(tag) == tag \in {2, 4}

\* The size of a whole record with this tag.
TagRecordSize(tag) == 2 + TagWidth(tag) + (IF TagHasGateway(tag) THEN TagWidth(tag) ELSE 0)

\* The tag of a route entry: by family and presence of a gateway.
EntryTag(ir) ==
    CASE ir.family = 4 /\ ir.gateway = NoGateway -> 1
      [] ir.family = 4 /\ ir.gateway # NoGateway -> 2
      [] ir.family = 6 /\ ir.gateway = NoGateway -> 3
      [] ir.family = 6 /\ ir.gateway # NoGateway -> 4

\* envelope header + 4 + the sum over the entries of their record sizes.
RequiredSize(rs) ==
    LET F[i \in 0..Len(rs)] ==
            IF i = 0 THEN HEADER_LENGTH + 4
            ELSE F[i - 1] + TagRecordSize(EntryTag(rs[i]))
    IN  F[Len(rs)]

\* How the records of payload p end when walked by the grammar from 0-based
\* offset pos: "whole" (the payload ends at a tag boundary), "torn" (a valid
\* tag with fewer bytes after it than it requires) or "unknown" (a tag that
\* is none of the four).
RECURSIVE GrammarWalk(_, _)
GrammarWalk(p, pos) ==
    IF pos >= Len(p) THEN "whole"
    ELSE LET tag == p[pos + 1]
         IN  IF tag \notin 1..4 THEN "unknown"
             ELSE IF pos + TagRecordSize(tag) > Len(p) THEN "torn"
             ELSE GrammarWalk(p, pos + TagRecordSize(tag))

TruncatedHeaderPayload(p) == Len(p) < 4

TornPayload(p) == Len(p) >= 4 /\ GrammarWalk(p, 4) = "torn"

ValidPayload(p) == Len(p) >= 4 /\ GrammarWalk(p, 4) = "whole"

\* The exceptions that report a record cut short.
TruncatedRecord == {ErrPrefixLength, ErrIpAddress}

\* The constructor has ended, one way or the other.
Constructed == mstate \in {"alive", "failed", "crashed"}

SumUsed(log) ==
    LET F[i \in 0..Len(log)] == IF i = 0 THEN 0 ELSE F[i - 1] + log[i][2]
    IN  F[Len(log)]

(* ------------------------------- claims -------------------------------- *)

\* C1: round trip.  A message written by write from (version, routes) into
\* a large enough buffer and decoded by a receiver constructs, routes() is
\* the original route set and version() the original version.
C1_RoundTrip ==
    (sent # Nothing /\ Constructed) =>
        /\ mstate = "alive"
        /\ m_routes_cache = Some(Get(sent).routes)
        /\ (vret # Nothing => Get(vret) = Get(sent).version)

\* C2: every byte write stores lies in the first buf_len bytes at buf, the
\* remaining-capacity counter pbuf_len never wraps (it never exceeds
\* buf_len), and a returned size does not exceed buf_len.
C2_WriteInBounds ==
    /\ \A i \in DOMAIN mem : i < buf_len
    /\ pbuf_len <= buf_len
    /\ (wpc = "returned" => wresult <= buf_len)

\* C3: when decoding succeeds, the bytes after the version were consumed as
\* whole records: each record read consumed exactly the size its tag
\* announces (gateway bytes if and only if the tag is 2 or 4), and the
\* records consumed add up to the payload.
C3_WholeRecords ==
    (mstate = "alive" /\ ~ub) =>
        LET log == dlog[CtorThread]
        IN  /\ \A i \in 1..Len(log) :
                  /\ log[i][1] \in 1..4
                  /\ log[i][2] = TagRecordSize(log[i][1])
            /\ SumUsed(log) = Len(payload) - 4

\* C4: a payload of fewer than 4 bytes makes the construction fail; no byte
\* outside the declared payload is read and the remaining-length counter of
\* the decoder never wraps.
C4_TruncatedHeader ==
    (mstate # "none" /\ TruncatedHeaderPayload(payload)) =>
        /\ ~ub
        /\ \A t \in AllThreads : m_buf_len[t] <= Len(payload)
        /\ (Constructed => mstate = "failed")

\* C5: a payload with a torn record (a valid tag, at any record position,
\* with fewer bytes after it than the tag requires) makes decoding fail with
\* a truncated-record error; it never succeeds.
C5_TornRecordFails ==
    (Constructed /\ TornPayload(payload)) =>
        /\ mstate = "failed"
        /\ merr \in TruncatedRecord

\* C6: capacity boundary of write.  With a buffer one byte short of the
\* required size write fails with "buf_len"; with a buffer of exactly the
\* required size it returns, and the size returned is the required size and
\* the number of bytes consumed.
C6_CapacityBoundary ==
    (wpc \in {"returned", "threw", "crashed"}) =>
        /\ (buf_len = RequiredSize(wroutes) - 1 =>
                wpc = "threw" /\ werr = ErrBufLen)
        /\ (buf_len = RequiredSize(wroutes) =>
                wpc = "returned" /\ wresult = RequiredSize(wroutes) /\ wresult = pbuf)

\* C7: memoization.  On a constructed object the record-parsing loop has run
\* exactly once (in the constructor's call) however many routes() calls were
\* made, the cache was assigned once and is populated, and every call that
\* returned gave the cached route set, the one the constructor's call gave.
C7_Memoization ==
    (mstate = "alive") =>
        /\ parseCount = 1
        /\ storeCount = 1
        /\ m_routes_cache # Nothing
        /\ rret[CtorThread].kind = "ok"
        /\ \A t \in AllThreads :
              rret[t].kind = "ok" =>
                  /\ rret[t].routes = Get(m_routes_cache)
                  /\ rret[t].routes = rret[CtorThread].routes

\* A later routes() call has returned after the constructor's, with routes.
C7_Witness ==
    /\ mstate = "alive"
    /\ calls >= 2
    /\ \E t \in Threads : rret[t].kind = "ok" /\ rret[t].routes # {} /\ rpc[t] = "idle"
    /\ parseCount = 1

\* C8: eager validation.  With either constructor, an invalid payload
\* (truncated header, torn record, unknown tag) makes the construction fail;
\* a constructed object has its cache populated and no routes() call on it
\* raises.  Stated of the constructions whose behaviour is defined (no read
\* outside the payload).
C8_EagerValidation ==
    /\ (Constructed /\ ~ub /\ ~ValidPayload(payload)) => mstate = "failed"
    /\ (mstate = "alive") =>
           /\ m_routes_cache # Nothing
           /\ \A t \in Threads : rpc[t] # "threw" /\ rret[t].kind # "err"

\* C9: encoder record layout.  Every record write has encoded carries the
\* tag of its entry (1, 2, 3, 4 by family and gateway), occupies
\* 2 + address_width bytes plus address_width more if and only if the entry
\* has a gateway, and the count returned for it is the number of bytes
\* stored for it, which are in memory where the record starts.
C9_RecordLayout ==
    \A i \in 1..Len(wrecs) :
        LET e == wrecs[i]
            tag == e.written[1]
            aw == TagWidth(tag)
        IN  /\ tag = EntryTag(e.route)
            /\ Len(e.route.address) = aw
            /\ e.count = 2 + aw + (IF e.route.gateway # NoGateway THEN aw ELSE 0)
            /\ e.count = Len(e.written)
            /\ LoadBytes(mem, e.at, e.count) = e.written
            /\ SubSeq(e.written, 3, 2 + aw) = e.route.address
            /\ SubSeq(e.written, 3 + aw, e.count) = e.route.gateway

\* An IPv4 record with a gateway and an IPv6 record with a gateway were
\* both encoded by one call that returned.
C9_Witness ==
    /\ wpc = "returned"
    /\ {wrecs[i].written[1] : i \in 1..Len(wrecs)} = {2, 4}

\* C10: under any interleaving of routes() calls of several threads on a
\* constructed object, no call after the construction passes the test of
\* the cache or assigns the cache: the cache is assigned at most once.
C10_PopulatedOnce ==
    /\ storeCount <= 1
    /\ (mstate = "alive") =>
           /\ storeCount = 1
           /\ \A t \in Threads : rpc[t] \notin {"loop", "store"}

\* Two threads are inside routes() at once, both past the test of the cache.
C10_Witness ==
    /\ mstate = "alive"
    /\ \E t1, t2 \in Threads : t1 # t2 /\ rpc[t1] = "ret" /\ rpc[t2] = "ret"
    /\ storeCount = 1

====
